---------------------------- MODULE Spec2Model ----------------------------
(***************************************************************************)
(* A model of the token-bucket limiter of chriskillpack/ratelimiter        *)
(* (limiter.go): the Limiter's fields, one action per step of Acquire and  *)
(* tryAcquire for each calling goroutine, the clock, and the contexts the  *)
(* callers pass.                                                           *)
(*                                                                         *)
(* Go's int64 values (time.Duration, the product in the refill, and int on *)
(* a 64-bit build) are modelled at their full width as four 16-bit limbs,  *)
(* least significant first, in two's complement.                           *)
(***************************************************************************)
EXTENDS Integers, Sequences, FiniteSets, TLC

\* ------------------------------------------------------------------ bounds
MaxRate == 2
MaxWindow == 3
MaxStep == 1
MaxCalls == 2

\* The goroutines that call Acquire on the one Limiter.
Callers == {1, 2}

\* ------------------------------------------------------- 64-bit arithmetic
Base == 2^16

Word64 == [1..4 -> 0..(Base - 1)]

\* The int64 with the small non-negative value n (n < 2^31).
W(n) == <<n % Base, (n \div Base) % Base, 0, 0>>

Zero == W(0)

\* The value of a word known to be small and non-negative.
Val(a) == a[1] + Base * a[2]

IsSmall(a) == a[3] = 0 /\ a[4] = 0 /\ a[2] < Base \div 4

\* The sign bit.
IsNeg(a) == a[4] >= Base \div 2

\* a + b, wrapping at 64 bits as Go's int64 addition does.
Add64(a, b) ==
    LET s1 == a[1] + b[1]
        s2 == a[2] + b[2] + s1 \div Base
        s3 == a[3] + b[3] + s2 \div Base
        s4 == a[4] + b[4] + s3 \div Base
    IN  <<s1 % Base, s2 % Base, s3 % Base, s4 % Base>>

\* -a in two's complement.
Neg64(a) ==
    Add64(<<Base - 1 - a[1], Base - 1 - a[2], Base - 1 - a[3], Base - 1 - a[4]>>, W(1))

Sub64(a, b) == Add64(a, Neg64(b))

\* a * m for an int64 a and m in 0..2^15-1, wrapping at 64 bits as Go's
\* int64 multiplication does (the carry out of the top limb is dropped).
Mul64(a, m) ==
    LET p1 == a[1] * m
        p2 == a[2] * m + p1 \div Base
        p3 == a[3] * m + p2 \div Base
        p4 == a[4] * m + p3 \div Base
    IN  <<p1 % Base, p2 % Base, p3 % Base, p4 % Base>>

\* The unsigned quotient of the 64-bit pattern a by w in 1..2^15-1.
QuoU(a, w) ==
    LET n4 == a[4]
        n3 == (n4 % w) * Base + a[3]
        n2 == (n3 % w) * Base + a[2]
        n1 == (n2 % w) * Base + a[1]
    IN  <<n1 \div w, n2 \div w, n3 \div w, n4 \div w>>

\* The unsigned quotient of the 64-bit pattern a by a divisor d that is small
\* or a small multiple of 2^48 (only its top limb is not zero).
QuoW(a, d) ==
    IF IsSmall(d) THEN QuoU(a, Val(d)) ELSE QuoU(<<a[4], 0, 0, 0>>, d[4])

\* a / d for a positive d, truncated toward zero as Go's integer division is.
Quo64(a, d) == IF IsNeg(a) THEN Neg64(QuoW(Neg64(a), d)) ELSE QuoW(a, d)

\* The signed order: the words compared from the top limb down with the
\* sign bit flipped.
Key(a) == <<(a[4] + Base \div 2) % Base, a[3], a[2], a[1]>>

Less64(a, b) ==
    \E i \in 1..4 : /\ Key(a)[i] < Key(b)[i]
                    /\ \A j \in 1..(i - 1) : Key(a)[j] = Key(b)[j]

Leq64(a, b) == a = b \/ Less64(a, b)

Min64(a, b) == IF Less64(b, a) THEN b ELSE a



\* -------------------------------------------------------------------- state
Nil == "nil"

\* ctx.Err() of a caller's context once it is Done: the first caller passes
\* contexts that are cancelled, the others contexts with a deadline.
Reason(c) == IF c = 1 THEN "context canceled" ELSE "context deadline exceeded"

\* The clock advances in small steps, or by one long idle period of 2^62 ns.
LongIdle == <<0, 0, 0, Base \div 4>>

Ticks == {W(k) : k \in 1..MaxStep}

\* The windows New is given: a few nanoseconds, or one long window of 2^62 ns.
Windows == {W(k) : k \in 1..MaxWindow} \cup {LongIdle}

VARIABLES
    rate,       \* l.rate
    window,     \* l.window, in nanoseconds
    tokens,     \* l.tokens, an int64
    sinceLast,  \* clock.Now().Sub(l.lastTime), an int64 of nanoseconds
    mu,         \* l.mu: 0 when unlocked, else the caller holding it
    pc,         \* where each caller is in Acquire / tryAcquire
    timer,      \* the nanoseconds left before the caller's clock.After channel fires
    ctxErr,     \* ctx.Err() of the context the caller passed (Nil until it is Done)
    res,        \* what the caller's Acquire returned ("none" while it has not)
    \* history of the run, read by the properties only
    advanced,   \* the clock has moved since New
    calls,      \* Acquire calls started
    moved,      \* the clock has moved since the caller's current call started
    atCall,     \* what held when the caller's current call started
    first,      \* the result of the current call's first tryAcquire
    waited,     \* the current call has invoked clock.After
    \* totals of the run, followed by RateSpec only
    age,        \* nanoseconds on the clock since New
    grants      \* Acquire calls that have returned nil

limiter == <<rate, window, tokens, sinceLast, mu>>
caller == <<pc, timer, ctxErr, res>>
history == <<advanced, calls, moved, atCall, first, waited>>
totals == <<age, grants>>
vars == <<limiter, caller, history, totals>>

InAcquire(c) == pc[c] \notin {"idle", "done"}

\* tokens: rate in New's composite literal.
NewTokensEmpty(r) == Zero

NewTokens(r) == W(r)

\* New(rate, window): the bucket starts full, l.lastTime is the clock's reading.
Init ==
    /\ rate \in 1..MaxRate
    /\ window \in Windows
    /\ tokens = NewTokens(rate)
    /\ sinceLast = Zero
    /\ mu = 0
    /\ pc = [c \in Callers |-> "idle"]
    /\ timer = [c \in Callers |-> Zero]
    /\ ctxErr = [c \in Callers |-> Nil]
    /\ res = [c \in Callers |-> "none"]
    /\ advanced = FALSE
    /\ calls = 0
    /\ moved = [c \in Callers |-> FALSE]
    /\ atCall = [c \in Callers |-> [done |-> FALSE, empty |-> FALSE, over |-> FALSE]]
    /\ first = [c \in Callers |-> "none"]
    /\ waited = [c \in Callers |-> FALSE]
    /\ age = 0
    /\ grants = 0

\* ------------------------------------------------------------------ Acquire
ExhaustedStrict(t) == Less64(t, Zero)

\* if l.tokens <= 0
Exhausted(t) == Leq64(t, Zero)

\* A goroutine calls l.Acquire(ctx) with a context that is live or already
\* Done.  atCall records whether ctx was Done, whether the bucket was empty
\* with no time elapsed since the last refill, and whether this is the call
\* after the first l.rate calls, all returned, with the clock not yet moved.
Call(c, budget) ==
    /\ pc[c] \in {"idle", "done"}
    /\ calls < budget
    /\ \E e \in {Nil, Reason(c)} :
        /\ ctxErr' = [ctxErr EXCEPT ![c] = e]
        /\ atCall' = [atCall EXCEPT ![c] =
              [done  |-> e # Nil,
               empty |-> Exhausted(tokens) /\ sinceLast = Zero,
               over  |-> /\ calls = rate
                         /\ ~advanced
                         /\ \A o \in Callers : ~InAcquire(o)]]
    /\ pc' = [pc EXCEPT ![c] = "try"]
    /\ res' = [res EXCEPT ![c] = "none"]
    /\ calls' = calls + 1
    /\ moved' = [moved EXCEPT ![c] = FALSE]
    /\ first' = [first EXCEPT ![c] = "none"]
    /\ waited' = [waited EXCEPT ![c] = FALSE]
    /\ UNCHANGED <<limiter, timer, advanced, totals>>

\* The caller's context becomes Done while its Acquire is running.
Cancel(c) ==
    /\ InAcquire(c)
    /\ ctxErr[c] = Nil
    /\ ctxErr' = [ctxErr EXCEPT ![c] = Reason(c)]
    /\ UNCHANGED <<limiter, pc, timer, res, history, totals>>

\* (Each intermediate result below is bound to a value before it is used, so
\* that it is computed once however often the next operator reads it.)

AccruedRoundedUp(e, r, w) ==
    CHOOSE q \in {Add64(Quo64(p, w), W(1)) : p \in {Mul64(e, r)}} : TRUE

\* int(elapsed.Nanoseconds() * int64(l.rate) / l.window.Nanoseconds())
Accrued(e, r, w) ==
    CHOOSE q \in {Quo64(p, w) : p \in {Mul64(e, r)}} : TRUE

\* l.tokens += ...; l.tokens = min(l.tokens, l.rate)
Refilled(t, e, r, w) ==
    CHOOSE m \in {Min64(s, W(r)) : s \in {Add64(t, q) : q \in {Accrued(e, r, w)}}} : TRUE

CanLockNoMutex(c) == TRUE

\* l.mu.Lock(): the mutex is free.
CanLock(c) == mu = 0

RefillKeepLast(c) ==
    /\ pc[c] = "try"
    /\ CanLock(c)
    /\ mu' = c
    /\ tokens' = Refilled(tokens, sinceLast, rate, window)
    /\ pc' = [pc EXCEPT ![c] = "check"]
    /\ UNCHANGED <<rate, window, sinceLast, timer, ctxErr, res, history, totals>>

\* tryAcquire up to the refill: l.mu.Lock(); now := clock.Now();
\* elapsed := now.Sub(l.lastTime); l.lastTime = now; l.tokens += ...;
\* l.tokens = min(l.tokens, l.rate)
Refill(c) ==
    /\ pc[c] = "try"
    /\ CanLock(c)
    /\ mu' = c
    /\ tokens' = Refilled(tokens, sinceLast, rate, window)
    /\ sinceLast' = Zero
    /\ pc' = [pc EXCEPT ![c] = "check"]
    /\ UNCHANGED <<rate, window, timer, ctxErr, res, history, totals>>

FailHoldingLock(c) ==
    /\ pc[c] = "check"
    /\ Exhausted(tokens)
    /\ pc' = [pc EXCEPT ![c] = "after"]
    /\ first' = [first EXCEPT ![c] = IF @ = "none" THEN "fail" ELSE @]
    /\ UNCHANGED <<limiter, timer, ctxErr, res,
                   advanced, calls, moved, atCall, waited, totals>>

\* The bucket is exhausted: tryAcquire returns false and its deferred
\* l.mu.Unlock() runs.
Fail(c) ==
    /\ pc[c] = "check"
    /\ Exhausted(tokens)
    /\ mu' = 0
    /\ pc' = [pc EXCEPT ![c] = "after"]
    /\ first' = [first EXCEPT ![c] = IF @ = "none" THEN "fail" ELSE @]
    /\ UNCHANGED <<rate, window, tokens, sinceLast, timer, ctxErr, res,
                   advanced, calls, moved, atCall, waited, totals>>

\* The bucket is not exhausted: tryAcquire goes on to remove a token.
Pass(c) ==
    /\ pc[c] = "check"
    /\ ~Exhausted(tokens)
    /\ pc' = [pc EXCEPT ![c] = "take"]
    /\ UNCHANGED <<limiter, timer, ctxErr, res, history, totals>>

TakeTwoTokens(c) ==
    /\ pc[c] = "take"
    /\ tokens' = Sub64(tokens, W(2))
    /\ mu' = 0
    /\ pc' = [pc EXCEPT ![c] = "done"]
    /\ res' = [res EXCEPT ![c] = Nil]
    /\ first' = [first EXCEPT ![c] = IF @ = "none" THEN "ok" ELSE @]
    /\ UNCHANGED <<rate, window, sinceLast, timer, ctxErr, advanced, calls,
                   moved, atCall, waited>>

\* l.tokens--; tryAcquire returns true, its deferred l.mu.Unlock() runs and
\* Acquire returns nil.
TakeToken(c) ==
    /\ pc[c] = "take"
    /\ tokens' = Sub64(tokens, W(1))
    /\ mu' = 0
    /\ pc' = [pc EXCEPT ![c] = "done"]
    /\ res' = [res EXCEPT ![c] = Nil]
    /\ first' = [first EXCEPT ![c] = IF @ = "none" THEN "ok" ELSE @]
    /\ UNCHANGED <<rate, window, sinceLast, timer, ctxErr, advanced, calls,
                   moved, atCall, waited>>

Take(c) == TakeToken(c) /\ UNCHANGED totals

\* The same step with the grant counted.
TakeCounted(c) == TakeToken(c) /\ grants' = grants + 1 /\ UNCHANGED age

\* l.window / time.Duration(l.rate): the polling delay, in nanoseconds.
Delay(w, r) == Quo64(w, W(r))

\* Entering the select evaluates clock.After(l.window / time.Duration(l.rate)).
After(c) ==
    /\ pc[c] = "after"
    /\ timer' = [timer EXCEPT ![c] = Delay(window, rate)]
    /\ waited' = [waited EXCEPT ![c] = TRUE]
    /\ pc' = [pc EXCEPT ![c] = "select"]
    /\ UNCHANGED <<limiter, ctxErr, res, advanced, calls, moved, atCall, first, totals>>

ErrNil(c) == Nil

ErrCanceled(c) == "context canceled"

\* What Acquire returns from the select's first case: ctx.Err().
Err(c) == ctxErr[c]

SelectDoneBeforeTry(c) ==
    /\ pc[c] \in {"try", "select"}
    /\ ctxErr[c] # Nil
    /\ res' = [res EXCEPT ![c] = Err(c)]
    /\ pc' = [pc EXCEPT ![c] = "done"]
    /\ timer' = [timer EXCEPT ![c] = Zero]
    /\ UNCHANGED <<limiter, ctxErr, history, totals>>

\* case <-ctx.Done(): return ctx.Err()
SelectDone(c) ==
    /\ pc[c] = "select"
    /\ ctxErr[c] # Nil
    /\ res' = [res EXCEPT ![c] = Err(c)]
    /\ pc' = [pc EXCEPT ![c] = "done"]
    /\ timer' = [timer EXCEPT ![c] = Zero]
    /\ UNCHANGED <<limiter, ctxErr, history, totals>>

\* case <-clock.After(...): the delay has elapsed, go round the loop.
SelectTimer(c) ==
    /\ pc[c] = "select"
    /\ timer[c] = Zero
    /\ pc' = [pc EXCEPT ![c] = "try"]
    /\ UNCHANGED <<limiter, timer, ctxErr, res, history, totals>>

\* One step of a goroutine inside Acquire.
Step(c) ==
    \/ Refill(c)
    \/ Fail(c)
    \/ Pass(c)
    \/ Take(c)
    \/ After(c)
    \/ SelectDone(c)
    \/ SelectTimer(c)

\* -------------------------------------------------------------------- clock
\* Some goroutine is blocked on a timer that has not fired.
TimerPending == \E c \in Callers : pc[c] = "select" /\ timer[c] # Zero

\* What is left of a timer of t nanoseconds after d more have passed.
Remaining(t, d) == IF Less64(d, t) THEN Sub64(t, d) ELSE Zero

\* The clock moves on by d nanoseconds: time passing under the package
\* clock, fakeclock.Advance(d) (or the fake's After) under the fake one.
\* The model follows the clock for one window past the last refill (after
\* which the bucket is full), while a timer is pending, and not once the
\* token count is negative; it follows it in small steps under the small
\* windows only.
Passes(d) ==
    /\ ~IsNeg(tokens)
    /\ Less64(sinceLast, window) \/ (TimerPending /\ IsSmall(d))
    /\ sinceLast' = Add64(sinceLast, d)
    /\ timer' = [c \in Callers |-> Remaining(timer[c], d)]
    /\ advanced' = TRUE
    /\ moved' = [c \in Callers |-> InAcquire(c) \/ moved[c]]
    /\ UNCHANGED <<rate, window, tokens, mu, pc, ctxErr, res, calls, atCall,
                   first, waited>>

Advance(d) == Passes(d) /\ UNCHANGED totals

Tick == IsSmall(window) /\ \E d \in Ticks : Advance(d)

Idle == Advance(LongIdle)

\* ----------------------------------------------------------- specifications
Next ==
    \/ \E c \in Callers : Call(c, MaxCalls)
    \/ \E c \in Callers : Cancel(c)
    \/ \E c \in Callers : Step(c)
    \/ Tick
    \/ Idle

Spec == Init /\ [][Next]_vars

\* The same program in the runs the liveness claims are about: the window
\* is a small one and the clock moves in small steps only, a context is Done when it is passed or never,
\* and one more call is followed.  The fairness is the scheduling the Go
\* runtime gives: a goroutine that can run eventually runs, a goroutine
\* waiting for l.mu eventually gets it (sync.Mutex hands the lock to a
\* starved waiter), and time goes on.  Callers need not call again.
NextFair ==
    \/ \E c \in Callers : Call(c, MaxCalls + 1)
    \/ \E c \in Callers : Step(c)
    \/ Tick

\* New given one of the small windows.
InitSmall == Init /\ IsSmall(window)

FairSpec ==
    /\ InitSmall
    /\ [][NextFair]_vars
    /\ \A c \in Callers : WF_vars(Step(c)) /\ SF_vars(Refill(c))
    /\ WF_vars(Tick)

\* The same program with the totals of the run followed: the time on the
\* clock since New and the calls granted.  The window is a small one, the
\* clock moves in small steps, no context is ever Done (a call that returns
\* an error is not granted), and one more call is followed.  The time is
\* followed for one window, and on until the rate bound covers every call the
\* run can make.
RateBound(a) == rate + (a * rate) \div Val(window)

Older(a, d) ==
    IF a >= Val(window) /\ RateBound(a) > MaxCalls THEN a ELSE a + Val(d)

\* Acquire called with a context that is not Done.
CallLive(c, budget) == Call(c, budget) /\ ctxErr'[c] = Nil

\* The clock's step with the time since New followed.
TickAged ==
    \E d \in Ticks : Passes(d) /\ age' = Older(age, d) /\ UNCHANGED grants

NextRate ==
    \/ \E c \in Callers : CallLive(c, MaxCalls + 1)
    \/ \E c \in Callers : Refill(c)
    \/ \E c \in Callers : Fail(c)
    \/ \E c \in Callers : Pass(c)
    \/ \E c \in Callers : TakeCounted(c)
    \/ \E c \in Callers : After(c)
    \/ \E c \in Callers : SelectTimer(c)
    \/ TickAged

RateSpec == InitSmall /\ [][NextRate]_vars

TypeOK ==
    /\ rate \in 1..MaxRate
    /\ window \in Windows
    /\ tokens \in Word64
    /\ timer \in [Callers -> Word64]
    /\ sinceLast \in Word64
    /\ mu \in {0} \cup Callers
    /\ pc \in [Callers -> {"idle", "try", "check", "take", "after", "select", "done"}]
    /\ \A c \in Callers : ctxErr[c] \in {Nil, Reason(c)}
    /\ \A c \in Callers : res[c] \in {Nil, "none", Reason(c)}
    /\ age \in Nat
    /\ grants \in 0..(MaxCalls + 1)


\* ------------------------------------------------------------------- claims
Min(a, b) == IF a < b THEN a ELSE b

Returned(c) == pc[c] = "done"

Granted(c) == Returned(c) /\ res[c] = Nil

Failed(c) == Returned(c) /\ res[c] # Nil

\* No other goroutine is inside Acquire.
Alone(c) == \A o \in Callers \ {c} : ~InAcquire(o)

\* C1: whenever no tryAcquire is in progress (every attempt so far has
\* completed), the token count is at least 0 and at most the capacity.
C1_TokensInRange ==
    mu = 0 => Leq64(Zero, tokens) /\ Leq64(tokens, W(rate))

\* Each caller has called Acquire at most once and the clock has not moved
\* since New.
OneCallEach ==
    /\ ~advanced
    /\ calls = Cardinality({c \in Callers : pc[c] # "idle"})

FirstOk == {c \in Callers : first[c] = "ok"}

FirstTried == {c \in Callers : first[c] # "none"}

\* C2: while the clock has not moved since New and every caller has called
\* Acquire at most once, the number of callers whose first attempt succeeded
\* is the smaller of the number whose first attempt has completed and the
\* capacity, and each of them took a token of its own: the bucket holds the
\* capacity less one token per grant.
C2_ExactlyMinGranted ==
    OneCallEach =>
        /\ Cardinality(FirstOk) = Min(Cardinality(FirstTried), rate)
        /\ mu = 0 => tokens = W(rate - Cardinality(FirstOk))

\* More callers than tokens, all through their first attempt at the time of New.
C2_Witness ==
    /\ OneCallEach
    /\ FirstTried = Callers
    /\ rate < Cardinality(Callers)
    /\ Cardinality(FirstOk) = rate

\* C3: a caller blocked in the select, alone in Acquire and with a context
\* that is not Done, is eventually granted a token (unless its context
\* becomes Done or another caller comes in).
C3_BlockedGetsThrough ==
    \A c \in Callers :
        (pc[c] = "select" /\ Alone(c) /\ ctxErr[c] = Nil)
            ~> (Granted(c) \/ ctxErr[c] # Nil \/ ~Alone(c))

AllBlocked == \A c \in Callers : pc[c] = "select" /\ ctxErr[c] = Nil

\* C4: when every caller is blocked in the select with a context that is not
\* Done, some caller is eventually granted a token (unless a context becomes
\* Done).  Stated for the windows that the capacity divides, where the
\* polling delay times the rate is a whole token.
C4_SomeBlockedGetsThrough ==
    (AllBlocked /\ Mul64(Delay(window, rate), rate) = window)
        ~> (\E c \in Callers : Granted(c) \/ ctxErr[c] # Nil)

\* C5: while the clock has not moved since New and no more than l.rate calls
\* of Acquire have started, no call has failed an attempt, invoked
\* clock.After or returned an error.
C5_FirstNImmediate ==
    (~advanced /\ calls <= rate) =>
        \A c \in Callers :
            /\ first[c] # "fail"
            /\ ~waited[c]
            /\ pc[c] \notin {"after", "select"}
            /\ Returned(c) => res[c] = Nil

\* All of the first l.rate calls have returned, at the time of New.
C5_Witness ==
    /\ ~advanced
    /\ calls = rate
    /\ rate = MaxRate
    /\ \A c \in Callers : ~InAcquire(c)
    /\ \E c \in Callers : Granted(c)
    /\ tokens = Zero

\* C6: the call made right after the first l.rate calls have returned, with
\* the clock not moved since New: as long as the clock has not moved since,
\* it has taken no token; it takes one only after a failed attempt, a
\* clock.After and a move of the clock; and it returns an error only if its
\* context is Done.
C6_NextCallWaits ==
    \A c \in Callers :
        atCall[c].over =>
            /\ ~moved[c] => (pc[c] # "take" /\ ~Granted(c) /\ first[c] # "ok")
            /\ (first[c] = "fail" /\ (pc[c] = "take" \/ Granted(c)))
                    => (waited[c] /\ moved[c])
            /\ Failed(c) => ctxErr[c] # Nil

\* That call was granted a token, after waiting.
C6_Witness ==
    \E c \in Callers : atCall[c].over /\ first[c] = "fail" /\ Granted(c) /\ waited[c]

\* The call started with a Done context on an empty bucket, no time having
\* elapsed since the last refill, and the clock has not moved since.
CancelledOnEmpty(c) == atCall[c].done /\ atCall[c].empty /\ ~moved[c]

\* C7: in a call made with a Done context on an empty bucket, while no time
\* elapses: the call takes no token and does not return nil, what it returns
\* is its context's error, and no step taken while the call is in Acquire
\* changes the token count.
C7_CancelledOnEmptyFails ==
    /\ [](\A c \in Callers :
            CancelledOnEmpty(c) =>
                /\ pc[c] # "take"
                /\ res[c] # Nil
                /\ Returned(c) => res[c] = ctxErr[c] /\ ctxErr[c] # Nil)
    /\ [][(\E c \in Callers : CancelledOnEmpty(c) /\ InAcquire(c))
            => tokens' = tokens]_vars

\* Such a call has returned, having failed an attempt and waited.
C7_Witness ==
    \E c \in Callers :
        CancelledOnEmpty(c) /\ Returned(c) /\ first[c] = "fail" /\ waited[c]

C10_NilOrCtxErr ==
    \A c \in Callers :
        Returned(c) => (res[c] = Nil \/ (res[c] = ctxErr[c] /\ ctxErr[c] # Nil))

\* One call returned nil and another its context's deadline error.
C10_Witness ==
    /\ \E c \in Callers : Granted(c)
    /\ \E c \in Callers : Failed(c) /\ res[c] = "context deadline exceeded"

\* C11: at the refill of an attempt that finds a count within range: if
\* exactly the window has elapsed since the last refill the bucket holds the
\* capacity, and if exactly half the window has elapsed the count is the
\* previous one plus half the capacity (rounded down), clamped to the capacity.
C11_RefillCorrect ==
    [][\A c \in Callers :
         (Refill(c) /\ ~IsNeg(tokens)) =>
            /\ sinceLast = window => tokens' = W(rate)
            /\ Add64(sinceLast, sinceLast) = window
                   => tokens' = Min64(Add64(tokens, W(rate \div 2)), W(rate))]_vars

\* C12: when a caller alone in Acquire, having failed an attempt on the empty
\* bucket and waited, retries with exactly the polling delay elapsed since the
\* last refill, the refill finds at least one token (the attempt succeeds).
\* Stated for the polling delays that are not zero.
C12_OnePollEnough ==
    [][\A c \in Callers :
         (/\ Refill(c)
          /\ first[c] = "fail"
          /\ Alone(c)
          /\ tokens = Zero
          /\ Delay(window, rate) # Zero
          /\ sinceLast = Delay(window, rate)) => ~Exhausted(tokens')]_vars

\* C13, for the span of one window that starts at New: while less than the
\* window has passed on the clock, at most l.rate calls have returned nil.
C13_RatePerWindow ==
    age < Val(window) => grants <= rate

\* C14: a failed attempt made by a call whose context is Done (the call that
\* the select then ends with ctx.Err()) leaves the other callers where they
\* would be without it: the count an attempt finds a moment later is the
\* count it would have found had the failed attempt not been made.  Stated
\* for the elapsed times whose product with the rate does not overflow.
C14_CancelledCallNoEffect ==
    [][\A c \in Callers :
         (/\ Refill(c)
          /\ ctxErr[c] # Nil
          /\ Exhausted(tokens')
          /\ IsSmall(sinceLast)) =>
            \A d \in Ticks :
                Refilled(tokens', d, rate, window)
                    = Refilled(tokens, Add64(sinceLast, d), rate, window)]_vars

\* C15: the lock is held only by a caller inside an attempt (between the
\* refill and the return of tryAcquire), never by one that is about to wait,
\* is waiting in the select, has returned or has not locked yet; the holder
\* always has a step to take, and when the lock is free a caller that wants
\* to make an attempt can take it.
C15_LockOnlyInAttempt ==
    /\ \A c \in Callers : mu = c <=> pc[c] \in {"check", "take"}
    /\ mu # 0 => ENABLED (Fail(mu) \/ Pass(mu) \/ Take(mu))
    /\ \A c \in Callers : (pc[c] = "try" /\ mu = 0) => CanLock(c)

\* One caller waits in the select while another holds the lock.
C15_Witness ==
    \E c \in Callers : pc[c] = "select" /\ mu # 0 /\ mu # c

\* Caller c starts an attempt in this step: it locks, reads the clock and refills.
Attempts(c) == pc[c] = "try" /\ pc'[c] = "check"

\* C16: l.lastTime is never ahead of the clock and never goes back (the time
\* elapsed since it is never negative, and an attempt moves it forward by
\* that time); the step that starts an attempt sets it to the clock's
\* reading (no time has elapsed since it), no other step of a caller changes
\* it (the time elapsed since it changes only as the clock moves on); and the
\* token count changes only in the step that sets it or, later in the same
\* attempt, in the decrement.
C16_LastTimeMonotonic ==
    [][/\ ~IsNeg(sinceLast) /\ ~IsNeg(sinceLast')
       /\ \A c \in Callers : Attempts(c) => sinceLast' = Zero
       /\ (\A c \in Callers : ~Attempts(c)) =>
             \/ sinceLast' = sinceLast
             \/ pc' = pc /\ tokens' = tokens /\ Less64(sinceLast, sinceLast')
       /\ tokens' # tokens =>
             \E c \in Callers :
                 \/ Attempts(c)
                 \/ pc[c] = "take" /\ mu = c /\ sinceLast' = sinceLast]_vars

\* A retry made after the clock moved has just set l.lastTime, and another
\* caller has made an attempt before it.
C16_Witness ==
    \E c \in Callers :
        /\ pc[c] = "check" /\ first[c] = "fail" /\ moved[c]
        /\ sinceLast = Zero
        /\ \E o \in Callers \ {c} : first[o] # "none"

\* Caller c executes l.tokens-- in this step.
Decrements(c) == pc[c] = "take" /\ pc'[c] # "take"

\* Caller c's Acquire returns nil in this step.
ReturnsNil(c) == res[c] # Nil /\ res'[c] = Nil

\* C17: a caller executes the decrement exactly in the step in which its
\* Acquire returns nil (so the grants and the decrements of a run are equal
\* in number); the decrement finds the count left by the attempt's refill
\* strictly positive and lowers it by exactly 1; and outside the refill no
\* other step, of a failed attempt, of a cancelled call or of the clock,
\* changes the count.
C17_OneTokenPerGrant ==
    [][/\ \A c \in Callers :
            /\ Decrements(c) <=> ReturnsNil(c)
            /\ Decrements(c) =>
                  /\ Less64(Zero, tokens)
                  /\ tokens' = Sub64(tokens, W(1))
       /\ (\A c \in Callers : ~Decrements(c) /\ ~Attempts(c)) => tokens' = tokens]_vars

\* On the bucket of New one call was granted and another returned its
\* context's error: one token is gone.
C17_Witness ==
    /\ ~advanced
    /\ \E c \in Callers : Granted(c)
    /\ \E c \in Callers : Failed(c)
    /\ tokens = W(rate - 1)

\* C18: when a caller is about to make an attempt, the number of tokens the
\* attempt adds before clamping, for the time elapsed since the last refill
\* (never negative), is not negative, and for the small elapsed times it is
\* the quotient of elapsed * rate by the window, rounded down.
C18_AccrualExact ==
    (\E c \in Callers : pc[c] = "try" /\ CanLock(c)) =>
        /\ ~IsNeg(Accrued(sinceLast, rate, window))
        /\ (IsSmall(sinceLast) /\ IsSmall(window)) =>
              Accrued(sinceLast, rate, window)
                  = W((Val(sinceLast) * rate) \div Val(window))

\* The first parts into which the elapsed time e is split: half of it, and
\* the small steps of the clock that fit in it.
Splits(e) == {Quo64(e, W(2))} \cup {d \in Ticks : Leq64(d, e)}

\* C19: when a caller is about to make an attempt, the count that two
\* attempts would leave, one made after a first part of the elapsed time and
\* one after the rest, is at most the count the one attempt over the whole
\* elapsed time leaves.
C19_SplitNeverCreditsMore ==
    (\E c \in Callers : pc[c] = "try" /\ CanLock(c)) =>
        \A e1 \in Splits(sinceLast) :
            Leq64(Refilled(Refilled(tokens, e1, rate, window),
                           Sub64(sinceLast, e1), rate, window),
                  Refilled(tokens, sinceLast, rate, window))

\* C20: the calls that have returned nil are at most the capacity plus the
\* tokens that accrue at l.rate per window over the time on the clock since
\* New, rounded down.
C20_RateBound ==
    grants <= rate + (age * rate) \div Val(window)

\* The bound is met with tokens accrued since New: more calls than the
\* capacity have been granted, as many as the bound allows, by two callers.
C20_Witness ==
    /\ age > 0
    /\ grants > rate
    /\ grants = rate + (age * rate) \div Val(window)
    /\ \A c \in Callers : Granted(c)

=============================================================================
